---- MODULE Spec2Model ----
(***************************************************************************)
(* Batch generation engine of swiggy-sf-dbt-pipeline/faker_producer.py:    *)
(* the validation layer, the uniqueness registry, the entity factories and *)
(* build_batch, driven by the main loop.                                   *)
(*                                                                         *)
(* Text is a sequence of one-character strings, money is an integer: raw   *)
(* inputs in thousandths (mills), canonical Decimal("0.01") values in      *)
(* hundredths (cents).  uuid.uuid4() is a fresh identifier: the pair of    *)
(* the batch number and the record's rank among the rows of its kind.      *)
(***************************************************************************)
EXTENDS Integers, Sequences, FiniteSets, TLC

\* ------------------------------------------------------------------
\* Bounds of the exploration
\* ------------------------------------------------------------------
MaxBatches == 2          \* build_batch invocations of one process
MaxBatchSize == 6        \* largest of the small target sizes
ControlledTarget == 100  \* target size of the controlled-input scenario
PeopleTarget == 29       \* target size when customers are random
AgentTarget == 41        \* target size when agents and orders are random
OrdersTarget == 49       \* target size when only the order loop is random
CatalogTarget == 30      \* target size when restaurants and menus are random
MaxProbeMills == 40      \* largest raw money value handed to a validator
MaxProbeQty == 3         \* largest quantity handed to a validator

\* ------------------------------------------------------------------
\* Program constants
\* ------------------------------------------------------------------
MAX_UNIQUENESS_ATTEMPTS == 20
MinCustomers == 10
MinRestaurants == 5
MinAgents == 5
MaxRestaurantName == 200
MaxItemName == 150

\* ------------------------------------------------------------------
\* Text
\* ------------------------------------------------------------------
UpperLetters == <<"A", "B", "C", "D", "I", "N">>
LowerLetters == <<"a", "b", "c", "d", "i", "n">>

LowerChar(c) ==
    IF \E i \in DOMAIN UpperLetters : UpperLetters[i] = c
    THEN LowerLetters[CHOOSE i \in DOMAIN UpperLetters : UpperLetters[i] = c]
    ELSE c

UpperChar(c) ==
    IF \E i \in DOMAIN LowerLetters : LowerLetters[i] = c
    THEN UpperLetters[CHOOSE i \in DOMAIN LowerLetters : LowerLetters[i] = c]
    ELSE c

\* str.lower()
Lower(s) == [i \in DOMAIN s |-> LowerChar(s[i])]

\* str.title() of a single word
Title(s) == [i \in DOMAIN s |-> IF i = 1 THEN UpperChar(s[i]) ELSE LowerChar(s[i])]

RECURSIVE LStrip(_)
LStrip(s) == IF s # <<>> /\ Head(s) = " " THEN LStrip(Tail(s)) ELSE s

RECURSIVE RStrip(_)
RStrip(s) ==
    IF s # <<>> /\ s[Len(s)] = " " THEN RStrip(SubSeq(s, 1, Len(s) - 1)) ELSE s

\* str.strip()
Strip(s) == RStrip(LStrip(s))

Digits == <<"0", "1", "2", "3", "4", "5", "6", "7", "8", "9">>

IsDigit(c) == \E i \in DOMAIN Digits : Digits[i] = c

\* str(n) for 0 <= n <= 99
Str(n) == IF n < 10 THEN <<Digits[n + 1]>> ELSE <<Digits[(n \div 10) + 1], Digits[(n % 10) + 1]>>

\* ------------------------------------------------------------------
\* Utilities
\* ------------------------------------------------------------------
\* Decimal(str(v)).quantize(Decimal("0.01"), rounding=ROUND_HALF_UP):
\* mills to cents, halves away from zero.
to_decimal(v) == IF v >= 0 THEN (v + 5) \div 10 ELSE -((5 - v) \div 10)

\* the n-th ten-digit number random_phone_india can return
Phone(n) == <<"6", "0", "0", "0", "0", "0", "0", "0">> \o
            <<Digits[(n \div 10) + 1], Digits[(n % 10) + 1]>>

\* ------------------------------------------------------------------
\* Validation layer: TRUE iff model_validate raises no ValidationError
\* ------------------------------------------------------------------
validate_mobile(v) ==
    ~ (Len(v) # 10 \/ v[1] \notin {"6", "7", "8", "9"}
       \/ \E i \in DOMAIN v : ~ IsDigit(v[i]))

CustomerModel(payload) == validate_mobile(payload.mobile)

\* the record of a str field coerced from the int `floor` is the one thing
\* the candidate of make_address can fail on
AddressModel(payload) == payload.floor_ok

name_nonempty(v) == Strip(v) # <<>> /\ Len(Strip(v)) <= MaxRestaurantName

itemname_nonempty(v) == Strip(v) # <<>> /\ Len(Strip(v)) <= MaxItemName

validate_price(v) == ~ (v <= 0)

RestaurantModel(payload) ==
    name_nonempty(payload.name) /\ validate_price(payload.pricing_for_2)

MenuModel(payload) ==
    itemname_nonempty(payload.itemname) /\ validate_price(payload.price)

DeliveryAgentModel(payload) ==
    /\ validate_mobile(payload.phone)
    /\ ~ (to_decimal(payload.rating) < 0 \/ to_decimal(payload.rating) > 500)

quantity_positive(v) == ~ (v <= 0)

decimal_positive(v) == ~ (to_decimal(v) < 0)

\* model_validator(mode="after") of OrderItemModel, on the canonical fields
check_subtotal(price, quantity, subtotal) ==
    LET expected == price * quantity
    IN ~ (subtotal # expected /\ subtotal < expected - 1)

OrderItemModel(payload) ==
    /\ quantity_positive(payload.quantity)
    /\ decimal_positive(payload.price)
    /\ decimal_positive(payload.subtotal)
    /\ check_subtotal(to_decimal(payload.price), payload.quantity,
                      to_decimal(payload.subtotal))

total_positive(v) == ~ (to_decimal(v) < 0)

OrderModel(payload) == total_positive(payload.totalamount)

\* ------------------------------------------------------------------
\* State
\* ------------------------------------------------------------------
VARIABLES
    env,         \* BATCH_SIZE, the build_batch invocations that are followed,
                 \* and which random sources draw freely (the others are
                 \* controlled inputs)
    batch,       \* build_batch invocations started by main
    pc,          \* position of the process in main / build_batch / a factory
    rows, customers, addresses, restaurants, menus, mlist, agents,
    attempts,    \* `attempts` of the two while loops of build_batch
    idx,         \* index of the running for loop of build_batch
    left,        \* iterations left of `for _ in range(random.randint(3, 6))`
    tries,       \* candidates generated by the running uniqueness-constrained factory
    existing_customer_mobiles, existing_customer_emails,
    existing_customer_name_dob, existing_agent_phones,
    existing_restaurant_keys, existing_menu_keys,
    result,      \* what the running build_batch has returned
    error,       \* the exception that left build_batch, "" if none
    accepted,    \* every record a uniqueness-constrained path has accepted, by kind
    last,        \* outcome of the last attempt of a uniqueness-constrained factory
    all_ok,      \* no factory call of this batch has returned None
    probe,       \* the last candidate handed directly to a validator
    emitted      \* the last batch upload_batch_to_s3 has put to the bucket

registry == <<existing_customer_mobiles, existing_customer_emails,
              existing_customer_name_dob, existing_agent_phones,
              existing_restaurant_keys, existing_menu_keys>>

pools == <<customers, addresses, restaurants, menus, mlist, agents>>

vars == <<env, batch, pc, rows, customers, addresses, restaurants, menus, mlist,
          agents, attempts, idx, left, tries, existing_customer_mobiles,
          existing_customer_emails, existing_customer_name_dob,
          existing_agent_phones, existing_restaurant_keys, existing_menu_keys,
          result, error, accepted, last, all_ok, probe, emitted>>

NoAttempt == [fn |-> "", outcome |-> ""]

NoProbe == [model |-> "", done |-> TRUE]

\* ------------------------------------------------------------------
\* Random sources, in five groups: "customer", "address" (addresses and
\* login events), "catalog" (restaurants and menus), "agent" and "orders".
\* A group of env.random draws freely from a small range; a controlled group
\* returns the first value of its range and natural keys never issued before.
\* ------------------------------------------------------------------
Random(g) == g \in env.random

\* random.randint(lo, hi): the ends of the range
RandInt(g, lo, hi) == IF Random(g) THEN {lo, hi} ELSE {lo}

\* random.random() < p
Chance(g) == IF Random(g) THEN BOOLEAN ELSE {FALSE}

\* random.choice(seq): an index of seq, the first or the last
Choice(g, seq) == (IF Random(g) THEN {1, Len(seq)} ELSE {1}) \cap DOMAIN seq

\* random.sample(seq, k): k distinct indexes of seq, from the front or from the back
Sample(g, seq, k) ==
    IF Random(g)
    THEN {[i \in 1 .. k |-> i], [i \in 1 .. k |-> Len(seq) + 1 - i]}
    ELSE {[i \in 1 .. k |-> i]}

\* fake.name()
Names ==
    IF Random("customer")
    THEN {<<"A", "n", "n">>, <<"B", "o", "b">>}
    ELSE {<<"A", "n", "n", " ">> \o Str(Cardinality(existing_customer_name_dob) + 1)}

\* random.randint(1, 9999) of the e-mail address
EmailNumbers == {1}

\* random_phone_india()
Phones(g, used) ==
    IF Random(g) THEN {Phone(1), Phone(2)} ELSE {Phone(Cardinality(used) + 1)}

\* fake.date_of_birth(...).isoformat()
Dobs == {"1990-01-01"}

\* fake.company(): the provider's word lists are not part of the program, so
\* a random source may also return a name RestaurantModel rejects
Companies ==
    IF Random("catalog") THEN {<<"C", "a", "f", "e">>, <<" ">>}
    ELSE {<<"C", "a", "f", "e">>}

\* fake.word(): a random source may also return a word that makes the item
\* name longer than MenuModel accepts
AllWords == <<<<"b", "a", "s", "i", "c">>, <<"d", "a", "l">>, <<"n", "a", "a", "n">>>>

LongWord == [i \in 1 .. MaxItemName - 4 |-> "x"]

Words(restaurant_id) ==
    IF Random("catalog")
    THEN {AllWords[1], LongWord}
    ELSE {AllWords[1 + Cardinality({k \in existing_menu_keys : k[1] = restaurant_id})]}

\* str(round(random.uniform(lo, hi), 2)), in mills
Uniform2(lo, hi) == {lo * 1000}

\* whether the candidate of make_address validates: its int `floor` goes to
\* a field declared str, the rest of the candidate is always in range
AddressOutcomes == IF Random("address") THEN BOOLEAN ELSE {TRUE}

\* str(round(random.uniform(1.0, 5.0), 1)), in mills
Ratings == {1000}

\* to_decimal's argument random.uniform(10, 60), in mills
Surcharges == {10000}

SmallTargets == 1 .. MaxBatchSize

Environments ==
    [batch_size : SmallTargets \cup {ControlledTarget}, batches : {MaxBatches},
     random : {{}}]
        \cup [batch_size : {PeopleTarget}, batches : {MaxBatches},
              random : {{"customer", "address", "orders"}, {"customer", "agent"}}]
        \cup [batch_size : {AgentTarget}, batches : {MaxBatches},
              random : {{"agent", "orders"}}]
        \cup [batch_size : {CatalogTarget}, batches : {1},
              random : {{"catalog"}}]
        \cup [batch_size : {OrdersTarget}, batches : {1},
              random : {{"orders"}}]

\* ------------------------------------------------------------------
\* Entity factories
\* ------------------------------------------------------------------
None == [type |-> "None"]

OfType(rs, type) == SelectSeq(rs, LAMBDA r : r.type = type)

\* str(uuid.uuid4()) of the next record of a kind
NewId(type) == <<batch, Len(OfType(rows, type)) + 1>>

BATCH_SIZE == env.batch_size

make_customer_candidate(customer_id, name, number, mobile, dob) ==
    [type |-> "customer", customer_id |-> customer_id, name |-> name,
     mobile |-> mobile,
     email |-> Strip(Lower(name)) \o Str(number) \o <<"@", "g", ".", "c">>,
     dob |-> dob]

\* validate_or_log(payload, CustomerModel)
validate_customer(payload) == IF CustomerModel(payload) THEN payload ELSE None

customer_keys(rec) ==
    [mobile |-> rec.mobile, email |-> Lower(rec.email),
     name_dob |-> <<Lower(Strip(rec.name)), rec.dob>>]

\* the collision check with the mobile lookup alone
customer_collides_mobile_only(payload) ==
    customer_keys(payload).mobile \in existing_customer_mobiles

customer_collides(payload) ==
    \/ customer_keys(payload).mobile \in existing_customer_mobiles
    \/ customer_keys(payload).email \in existing_customer_emails
    \/ customer_keys(payload).name_dob \in existing_customer_name_dob

\* one iteration of the loop of make_customer_unique: the outcome, the record
\* returned and the three registry sets afterwards
make_customer_unique(payload) ==
    LET valid == validate_customer(payload)
        same == [outcome |-> "", ret |-> None,
                 mobiles |-> existing_customer_mobiles,
                 emails |-> existing_customer_emails,
                 name_dob |-> existing_customer_name_dob]
    IN IF customer_collides(payload) THEN [same EXCEPT !.outcome = "collision"]
       ELSE IF valid = None THEN [same EXCEPT !.outcome = "invalid"]
       ELSE [outcome |-> "accepted", ret |-> valid,
             mobiles |-> existing_customer_mobiles \cup {customer_keys(valid).mobile},
             emails |-> existing_customer_emails \cup {customer_keys(valid).email},
             name_dob |-> existing_customer_name_dob
                            \cup {customer_keys(valid).name_dob}]

\* validate_or_log(payload, RestaurantModel): name stripped, price quantized
validate_restaurant(payload) ==
    IF RestaurantModel(payload)
    THEN [payload EXCEPT !.name = Strip(payload.name),
                         !.pricing_for_2 = to_decimal(payload.pricing_for_2)]
    ELSE None

restaurant_key(name, location_id) == <<Lower(Strip(name)), location_id>>

\* one iteration of the loop of make_restaurant_unique
make_restaurant_unique(name, location_id, restaurant_id, pricing) ==
    LET payload == [type |-> "restaurant", restaurant_id |-> restaurant_id,
                    name |-> name, pricing_for_2 |-> pricing,
                    location_id |-> location_id]
        valid == validate_restaurant(payload)
    IN IF restaurant_key(name, location_id) \in existing_restaurant_keys
       THEN [outcome |-> "collision", ret |-> None, keys |-> existing_restaurant_keys]
       ELSE IF valid = None
       THEN [outcome |-> "invalid", ret |-> None, keys |-> existing_restaurant_keys]
       ELSE [outcome |-> "accepted", ret |-> valid,
             keys |-> existing_restaurant_keys
                        \cup {restaurant_key(valid.name, valid.location_id)}]

\* validate_or_log(payload, MenuModel)
validate_menu(payload) ==
    IF MenuModel(payload)
    THEN [payload EXCEPT !.itemname = Strip(payload.itemname),
                         !.price = to_decimal(payload.price)]
    ELSE None

menu_key(restaurant_id, itemname) == <<restaurant_id, Lower(Strip(itemname))>>

\* getattr(fake, "food", lambda: "Item")(): Faker has no food provider
Food == <<"I", "t", "e", "m">>

\* the iteration without its registry lookup
make_menu_unique_unchecked(restaurant_id, word, menu_id, price) ==
    LET itemname == Strip(Title(word) \o <<" ">> \o Food)
        payload == [type |-> "menu", menu_id |-> menu_id,
                    restaurant_id |-> restaurant_id, itemname |-> itemname,
                    price |-> price]
        valid == validate_menu(payload)
    IN IF valid = None
       THEN [outcome |-> "invalid", ret |-> None, keys |-> existing_menu_keys]
       ELSE [outcome |-> "accepted", ret |-> valid,
             keys |-> existing_menu_keys
                        \cup {menu_key(valid.restaurant_id, valid.itemname)}]

\* the iteration with the key registered before the candidate is validated
make_menu_unique_eager(restaurant_id, word, menu_id, price) ==
    LET itemname == Strip(Title(word) \o <<" ">> \o Food)
        payload == [type |-> "menu", menu_id |-> menu_id,
                    restaurant_id |-> restaurant_id, itemname |-> itemname,
                    price |-> price]
        valid == validate_menu(payload)
        keys == existing_menu_keys \cup {menu_key(restaurant_id, itemname)}
    IN IF menu_key(restaurant_id, itemname) \in existing_menu_keys
       THEN [outcome |-> "collision", ret |-> None, keys |-> existing_menu_keys]
       ELSE IF valid = None
       THEN [outcome |-> "invalid", ret |-> None, keys |-> keys]
       ELSE [outcome |-> "accepted", ret |-> valid, keys |-> keys]

\* one iteration of the loop of make_menu_unique
make_menu_unique(restaurant_id, word, menu_id, price) ==
    LET itemname == Strip(Title(word) \o <<" ">> \o Food)
        payload == [type |-> "menu", menu_id |-> menu_id,
                    restaurant_id |-> restaurant_id, itemname |-> itemname,
                    price |-> price]
        valid == validate_menu(payload)
    IN IF menu_key(restaurant_id, itemname) \in existing_menu_keys
       THEN [outcome |-> "collision", ret |-> None, keys |-> existing_menu_keys]
       ELSE IF valid = None
       THEN [outcome |-> "invalid", ret |-> None, keys |-> existing_menu_keys]
       ELSE [outcome |-> "accepted", ret |-> valid,
             keys |-> existing_menu_keys
                        \cup {menu_key(valid.restaurant_id, valid.itemname)}]

\* validate_or_log(payload, DeliveryAgentModel)
validate_deliveryagent(payload) ==
    IF DeliveryAgentModel(payload)
    THEN [payload EXCEPT !.rating = to_decimal(payload.rating)]
    ELSE None

\* one iteration of the loop of make_deliveryagent_unique
make_deliveryagent_unique(phone, deliveryagent_id, rating) ==
    LET payload == [type |-> "deliveryagent", deliveryagent_id |-> deliveryagent_id,
                    phone |-> phone, rating |-> rating]
        valid == validate_deliveryagent(payload)
    IN IF phone \in existing_agent_phones
       THEN [outcome |-> "collision", ret |-> None, keys |-> existing_agent_phones]
       ELSE IF valid = None
       THEN [outcome |-> "invalid", ret |-> None, keys |-> existing_agent_phones]
       ELSE [outcome |-> "accepted", ret |-> valid,
             keys |-> existing_agent_phones \cup {valid.phone}]

\* make_address: None when validate_or_log rejects the candidate
make_address(customer_id, address_id, floor_ok) ==
    LET payload == [type |-> "customeraddressbook", address_id |-> address_id,
                    customer_id |-> customer_id, floor_ok |-> floor_ok]
    IN IF AddressModel(payload)
       THEN [type |-> "customeraddressbook", address_id |-> address_id,
             customer_id |-> customer_id]
       ELSE None

make_loginaudit(customer_id, login_id) ==
    [type |-> "loginaudit", login_id |-> login_id, customer_id |-> customer_id]

make_delivery(order_id, deliveryagent_id, address_id, delivery_id) ==
    [type |-> "delivery", delivery_id |-> delivery_id, order_id |-> order_id,
     deliveryagent_id |-> deliveryagent_id, address_id |-> address_id]

\* validate_or_log(itm_payload, OrderItemModel)
validate_orderitem(payload) ==
    IF OrderItemModel(payload)
    THEN [payload EXCEPT !.price = to_decimal(payload.price),
                         !.subtotal = to_decimal(payload.subtotal)]
    ELSE None

\* the loop over `chosen` of make_order_with_items: the items that validate
RECURSIVE order_items(_, _, _, _, _, _)
order_items(chosen, qtys, order_id, first_id, i, items) ==
    IF i > Len(chosen) THEN items
    ELSE LET price == chosen[i].price
             subtotal == price * qtys[i]
             itm_payload == [type |-> "orderitem",
                             orderitem_id |-> <<first_id[1], first_id[2] + Len(items)>>,
                             order_id |-> order_id, menu_id |-> chosen[i].menu_id,
                             quantity |-> qtys[i], price |-> price * 10,
                             subtotal |-> subtotal * 10]
             itm_valid == validate_orderitem(itm_payload)
         IN order_items(chosen, qtys, order_id, first_id, i + 1,
                        IF itm_valid # None THEN Append(items, itm_valid) ELSE items)

RECURSIVE SumSubtotals(_)
SumSubtotals(items) ==
    IF items = <<>> THEN 0 ELSE Head(items).subtotal + SumSubtotals(Tail(items))

\* validate_or_log(order_payload, OrderModel)
validate_order(payload) ==
    IF OrderModel(payload)
    THEN [payload EXCEPT !.totalamount = to_decimal(payload.totalamount)]
    ELSE None

\* make_order_with_items without its `if not items` return
make_order_with_items_unguarded(customer_id, restaurant_id, menus_for_rest, order_id, first_id, sample, qtys, surcharge) ==
    IF menus_for_rest = <<>> THEN [order |-> None, items |-> <<>>]
    ELSE LET chosen == [i \in DOMAIN sample |-> menus_for_rest[sample[i]]]
             items == order_items(chosen, qtys, order_id, first_id, 1, <<>>)
             total == SumSubtotals(items) + to_decimal(surcharge)
             order_payload == [type |-> "orders", order_id |-> order_id,
                               customer_id |-> customer_id,
                               restaurant_id |-> restaurant_id,
                               totalamount |-> total * 10]
         IN [order |-> validate_order(order_payload), items |-> items]

\* make_order_with_items, given what its random draws returned
make_order_with_items(customer_id, restaurant_id, menus_for_rest, order_id, first_id, sample, qtys, surcharge) ==
    IF menus_for_rest = <<>> THEN [order |-> None, items |-> <<>>]
    ELSE LET chosen == [i \in DOMAIN sample |-> menus_for_rest[sample[i]]]
             items == order_items(chosen, qtys, order_id, first_id, 1, <<>>)
             total == SumSubtotals(items) + to_decimal(surcharge)
             order_payload == [type |-> "orders", order_id |-> order_id,
                               customer_id |-> customer_id,
                               restaurant_id |-> restaurant_id,
                               totalamount |-> total * 10]
         IN IF items = <<>> THEN [order |-> None, items |-> <<>>]
            ELSE [order |-> validate_order(order_payload), items |-> items]

\* ------------------------------------------------------------------
\* main and build_batch
\* ------------------------------------------------------------------
Max(a, b) == IF a >= b THEN a ELSE b

Min(a, b) == IF a <= b THEN a ELSE b

num_customers == Max(MinCustomers, BATCH_SIZE \div 20)

num_restaurants == Max(MinRestaurants, BATCH_SIZE \div 50)

num_agents == Max(MinAgents, BATCH_SIZE \div 50)

\* menus.get(restaurant_id, [])
menus_get(restaurant_id) ==
    IF restaurant_id \in DOMAIN menus THEN menus[restaurant_id] ELSE <<>>

Idle ==
    /\ batch = 0 /\ pc = "main"
    /\ rows = <<>> /\ customers = <<>> /\ addresses = <<>> /\ restaurants = <<>>
    /\ menus = <<>> /\ mlist = <<>> /\ agents = <<>>
    /\ attempts = 0 /\ idx = 0 /\ left = 0 /\ tries = 0
    /\ existing_customer_mobiles = {} /\ existing_customer_emails = {}
    /\ existing_customer_name_dob = {} /\ existing_agent_phones = {}
    /\ existing_restaurant_keys = {} /\ existing_menu_keys = {}
    /\ result = <<>> /\ error = ""
    /\ accepted = [customer |-> {}, restaurant |-> {}, menu |-> {}, deliveryagent |-> {}]
    /\ last = NoAttempt /\ all_ok = TRUE /\ probe = NoProbe /\ emitted = 0

Init == env \in Environments /\ Idle

\* main calls build_batch, which sets up its locals
StartBatch ==
    /\ pc = "main" /\ batch < env.batches
    /\ batch' = batch + 1
    /\ rows' = <<>> /\ customers' = <<>> /\ addresses' = <<>> /\ restaurants' = <<>>
    /\ menus' = <<>> /\ mlist' = <<>> /\ agents' = <<>>
    /\ attempts' = 0 /\ idx' = 0 /\ left' = 0 /\ tries' = 0
    /\ result' = <<>> /\ all_ok' = TRUE /\ last' = NoAttempt
    /\ pc' = "customers"
    /\ UNCHANGED <<env, registry, error, accepted, probe, emitted>>

\* while len(customers) < num_customers and attempts < num_customers * 10
CustomersLoop ==
    /\ pc = "customers"
    /\ IF Len(customers) < num_customers /\ attempts < num_customers * 10
       THEN /\ attempts' = attempts + 1 /\ tries' = 0
            /\ pc' = "make_customer_unique" /\ UNCHANGED idx
       ELSE /\ pc' = "addresses" /\ idx' = 1 /\ UNCHANGED <<attempts, tries>>
    /\ UNCHANGED <<env, batch, rows, pools, left, registry, result, error,
                   accepted, last, all_ok, probe, emitted>>

\* for _ in range(MAX_UNIQUENESS_ATTEMPTS) goes on
\* a budget of one candidate more
in_budget_inclusive == tries <= MAX_UNIQUENESS_ATTEMPTS

in_budget == tries < MAX_UNIQUENESS_ATTEMPTS

\* a factory has used up its budget: it returns None and the caller goes on
Exhausted(fn, back) ==
    /\ pc = fn /\ ~ in_budget
    /\ last' = [fn |-> fn, outcome |-> "null", ret |-> None]
    /\ all_ok' = FALSE
    /\ pc' = back

\* an iteration of a factory that ends in `continue`
Continue(fn, outcome) ==
    /\ tries' = tries + 1
    /\ last' = [fn |-> fn, outcome |-> outcome, ret |-> None]
    /\ UNCHANGED <<pc, rows, pools, attempts, idx, left, all_ok, accepted>>

\* an iteration of a factory that returns the validated record
Accept(fn, ret, back) ==
    /\ tries' = tries + 1
    /\ last' = [fn |-> fn, outcome |-> "accepted", ret |-> ret]
    /\ rows' = Append(rows, ret)
    /\ pc' = back

CustomerAttempt ==
    /\ pc = "make_customer_unique" /\ in_budget
    /\ \E name \in Names, number \in EmailNumbers,
          mobile \in Phones("customer", existing_customer_mobiles), dob \in Dobs :
          LET r == make_customer_unique(
                       make_customer_candidate(NewId("customer"), name, number,
                                               mobile, dob))
          IN /\ existing_customer_mobiles' = r.mobiles
             /\ existing_customer_emails' = r.emails
             /\ existing_customer_name_dob' = r.name_dob
             /\ IF r.outcome = "accepted"
                THEN /\ Accept(pc, r.ret, "customers")
                     /\ customers' = Append(customers, r.ret)
                     /\ accepted' = [accepted EXCEPT !.customer = @ \cup {r.ret}]
                     /\ UNCHANGED <<addresses, restaurants, menus, mlist, agents,
                                    attempts, idx, left, all_ok>>
                ELSE Continue(pc, r.outcome)
    /\ UNCHANGED <<env, batch, existing_agent_phones, existing_restaurant_keys,
                   existing_menu_keys, result, error, probe, emitted>>

CustomerExhausted ==
    /\ Exhausted("make_customer_unique", "customers")
    /\ UNCHANGED <<env, batch, rows, pools, attempts, idx, left, tries, registry,
                   result, error, accepted, probe, emitted>>

\* the addresses the inner loop over range(random.randint(1, 2)) appends
RECURSIVE new_addresses(_, _, _, _)
new_addresses(customer_id, floor_oks, i, made) ==
    IF i > Len(floor_oks) THEN made
    ELSE LET a == make_address(customer_id,
                               <<batch, Len(addresses) + Len(made) + 1>>,
                               floor_oks[i])
         IN new_addresses(customer_id, floor_oks, i + 1,
                          IF a # None THEN Append(made, a) ELSE made)

\* for c in customers: addresses and the occasional login event
AddressesLoop ==
    /\ pc = "addresses"
    /\ IF idx <= Len(customers)
       THEN \E n \in RandInt("address", 1, 2) :
            \E floor_oks \in [1 .. n -> AddressOutcomes], login \in Chance("address") :
               LET c == customers[idx]
                   made == new_addresses(c.customer_id, floor_oks, 1, <<>>)
                   la == make_loginaudit(c.customer_id, NewId("loginaudit"))
               IN /\ addresses' = addresses \o made
                  /\ rows' = rows \o made \o (IF login THEN <<la>> ELSE <<>>)
                  /\ all_ok' = (all_ok /\ Len(made) = n)
                  /\ idx' = idx + 1
                  /\ UNCHANGED pc
       ELSE /\ pc' = "restaurants" /\ idx' = 0
            /\ UNCHANGED <<addresses, rows, all_ok>>
    /\ UNCHANGED <<env, batch, customers, restaurants, menus, mlist, agents,
                   attempts, left, tries, registry, result, error, accepted,
                   last, probe, emitted>>

\* for _ in range(num_restaurants)
RestaurantsLoop ==
    /\ pc = "restaurants"
    /\ IF idx < num_restaurants
       THEN /\ pc' = "make_restaurant_unique" /\ tries' = 0 /\ UNCHANGED idx
       ELSE /\ pc' = "menus" /\ idx' = 1 /\ UNCHANGED tries
    /\ UNCHANGED <<env, batch, rows, pools, attempts, left, registry, result,
                   error, accepted, last, all_ok, probe, emitted>>

RestaurantAttempt ==
    /\ pc = "make_restaurant_unique" /\ in_budget
    /\ \E name \in Companies, pricing \in Uniform2(100, 2000) :
          LET r == make_restaurant_unique(name, NewId("restaurant"),
                                          NewId("restaurant"), pricing)
          IN /\ existing_restaurant_keys' = r.keys
             /\ IF r.outcome = "accepted"
                THEN /\ Accept(pc, r.ret, "restaurants")
                     /\ restaurants' = Append(restaurants, r.ret)
                     /\ accepted' = [accepted EXCEPT !.restaurant = @ \cup {r.ret}]
                     /\ idx' = idx + 1
                     /\ UNCHANGED <<customers, addresses, menus, mlist, agents,
                                    attempts, left, all_ok>>
                ELSE Continue(pc, r.outcome)
    /\ UNCHANGED <<env, batch, existing_customer_mobiles, existing_customer_emails,
                   existing_customer_name_dob, existing_agent_phones,
                   existing_menu_keys, result, error, probe, emitted>>

RestaurantExhausted ==
    /\ Exhausted("make_restaurant_unique", "restaurants")
    /\ idx' = idx + 1
    /\ UNCHANGED <<env, batch, rows, pools, attempts, left, tries, registry,
                   result, error, accepted, probe, emitted>>

\* for r in restaurants: mlist = [] and the number of menu calls
MenusLoop ==
    /\ pc = "menus"
    /\ IF idx <= Len(restaurants)
       THEN /\ \E n \in RandInt("catalog", 3, 6) : left' = n
            /\ mlist' = <<>> /\ pc' = "menu_calls" /\ UNCHANGED idx
       ELSE /\ pc' = "agents" /\ idx' = 0 /\ UNCHANGED <<left, mlist>>
    /\ UNCHANGED <<env, batch, rows, customers, addresses, restaurants, menus,
                   agents, attempts, tries, registry, result, error, accepted,
                   last, all_ok, probe, emitted>>

\* the fallback record of build_batch
fallback(restaurant_id, menu_id) ==
    [type |-> "menu", menu_id |-> menu_id, restaurant_id |-> restaurant_id,
     itemname |-> <<"B", "a", "s", "i", "c", " ">> \o Food, price |-> 10000]

\* a build_batch that never takes the fallback branch
needs_fallback_never(ml) == FALSE

\* `if not mlist`
needs_fallback(ml) == ml = <<>>

\* the next call of make_menu_unique, or the end of the restaurant's menu:
\* the fallback item when nothing validated, then menus[restaurant_id] = mlist
MenuCalls ==
    /\ pc = "menu_calls"
    /\ IF left > 0
       THEN /\ pc' = "make_menu_unique" /\ tries' = 0
            /\ UNCHANGED <<rows, menus, mlist, idx, existing_menu_keys, accepted>>
       ELSE LET rid == restaurants[idx].restaurant_id
                fb == fallback(rid, NewId("menu"))
            IN /\ IF needs_fallback(mlist)
                  THEN /\ existing_menu_keys' =
                             existing_menu_keys \cup {menu_key(fb.restaurant_id, fb.itemname)}
                       /\ rows' = Append(rows, fb)
                       /\ menus' = (rid :> <<fb>>) @@ menus
                       /\ accepted' = [accepted EXCEPT !.menu = @ \cup {fb}]
                  ELSE /\ menus' = (rid :> mlist) @@ menus
                       /\ UNCHANGED <<existing_menu_keys, rows, accepted>>
               /\ mlist' = <<>>
               /\ idx' = idx + 1 /\ pc' = "menus" /\ UNCHANGED tries
    /\ UNCHANGED <<env, batch, customers, addresses, restaurants, agents, attempts,
                   left, existing_customer_mobiles, existing_customer_emails,
                   existing_customer_name_dob, existing_agent_phones,
                   existing_restaurant_keys, result, error, last, all_ok, probe, emitted>>

MenuAttempt ==
    /\ pc = "make_menu_unique" /\ in_budget
    /\ \E word \in Words(restaurants[idx].restaurant_id), price \in Uniform2(50, 800) :
          LET r == make_menu_unique(restaurants[idx].restaurant_id, word,
                                    NewId("menu"), price)
          IN /\ existing_menu_keys' = r.keys
             /\ IF r.outcome = "accepted"
                THEN /\ Accept(pc, r.ret, "menu_calls")
                     /\ mlist' = Append(mlist, r.ret)
                     /\ accepted' = [accepted EXCEPT !.menu = @ \cup {r.ret}]
                     /\ left' = left - 1
                     /\ UNCHANGED <<customers, addresses, restaurants, menus, agents,
                                    attempts, idx, all_ok>>
                ELSE Continue(pc, r.outcome)
    /\ UNCHANGED <<env, batch, existing_customer_mobiles, existing_customer_emails,
                   existing_customer_name_dob, existing_agent_phones,
                   existing_restaurant_keys, result, error, probe, emitted>>

MenuExhausted ==
    /\ Exhausted("make_menu_unique", "menu_calls")
    /\ left' = left - 1
    /\ UNCHANGED <<env, batch, rows, pools, attempts, idx, tries, registry,
                   result, error, accepted, probe, emitted>>

\* for _ in range(num_agents)
AgentsLoop ==
    /\ pc = "agents"
    /\ IF idx < num_agents
       THEN /\ pc' = "make_deliveryagent_unique" /\ tries' = 0
            /\ UNCHANGED <<idx, attempts>>
       ELSE /\ pc' = "orders" /\ attempts' = 0 /\ UNCHANGED <<idx, tries>>
    /\ UNCHANGED <<env, batch, rows, pools, left, registry, result, error,
                   accepted, last, all_ok, probe, emitted>>

AgentAttempt ==
    /\ pc = "make_deliveryagent_unique" /\ in_budget
    /\ \E phone \in Phones("agent", existing_agent_phones), rating \in Ratings :
          LET r == make_deliveryagent_unique(phone, NewId("deliveryagent"), rating)
          IN /\ existing_agent_phones' = r.keys
             /\ IF r.outcome = "accepted"
                THEN /\ Accept(pc, r.ret, "agents")
                     /\ agents' = Append(agents, r.ret)
                     /\ accepted' = [accepted EXCEPT !.deliveryagent = @ \cup {r.ret}]
                     /\ idx' = idx + 1
                     /\ UNCHANGED <<customers, addresses, restaurants, menus, mlist,
                                    attempts, left, all_ok>>
                ELSE Continue(pc, r.outcome)
    /\ UNCHANGED <<env, batch, existing_customer_mobiles, existing_customer_emails,
                   existing_customer_name_dob, existing_restaurant_keys,
                   existing_menu_keys, result, error, probe, emitted>>

AgentExhausted ==
    /\ Exhausted("make_deliveryagent_unique", "agents")
    /\ idx' = idx + 1
    /\ UNCHANGED <<env, batch, rows, pools, attempts, left, tries, registry,
                   result, error, accepted, probe, emitted>>

\* while len(rows) < batch_size and attempts < batch_size * 10
orders_loop_runs == Len(rows) < BATCH_SIZE /\ attempts < BATCH_SIZE * 10

\* `random.random() < 0.6 and agents`
wants_delivery(chance) == chance /\ agents # <<>>

\* the choice of an address without the filter on the customer
delivery_addresses_any(customer_id) ==
    IF addresses # <<>>
    THEN {addresses[i].address_id : i \in Choice("orders", addresses)}
    ELSE {None}

\* the address_id build_batch gives make_delivery, None if there is none
delivery_addresses(customer_id) ==
    LET cust_addresses == SelectSeq(addresses, LAMBDA a : a.customer_id = customer_id)
    IN IF cust_addresses # <<>>
       THEN {cust_addresses[i].address_id : i \in Choice("orders", cust_addresses)}
       ELSE IF addresses # <<>>
       THEN {addresses[i].address_id : i \in Choice("orders", addresses)}
       ELSE {None}

\* the group with the delivery appended before the items
order_group_delivery_second(made, chance, ai, address_id) ==
    <<made.order>> \o
        (IF wants_delivery(chance) /\ address_id # None
         THEN <<make_delivery(made.order.order_id, agents[ai].deliveryagent_id,
                              address_id, NewId("delivery"))>>
         ELSE <<>>) \o made.items

\* the group with the delivery appended before its order
order_group_delivery_first(made, chance, ai, address_id) ==
    (IF wants_delivery(chance) /\ address_id # None
     THEN <<make_delivery(made.order.order_id, agents[ai].deliveryagent_id,
                          address_id, NewId("delivery"))>>
     ELSE <<>>) \o <<made.order>> \o made.items

\* the rows one iteration appends after a valid order: the order, its items
\* and, when build_batch makes one, the delivery
order_group(made, chance, ai, address_id) ==
    <<made.order>> \o made.items \o
        (IF wants_delivery(chance) /\ address_id # None
         THEN <<make_delivery(made.order.order_id, agents[ai].deliveryagent_id,
                              address_id, NewId("delivery"))>>
         ELSE <<>>)

\* one iteration of the order loop: random.choice raises IndexError on an
\* empty pool, otherwise an order, its items and maybe a delivery are appended
OrderIteration ==
    /\ pc = "orders" /\ orders_loop_runs
    /\ attempts' = attempts + 1
    /\ IF customers = <<>> \/ restaurants = <<>>
       THEN /\ error' = "IndexError" /\ pc' = "halted"
            /\ UNCHANGED <<rows, all_ok>>
       ELSE \E ci \in Choice("orders", customers), ri \in Choice("orders", restaurants) :
            LET cust == customers[ci]
                rest == restaurants[ri]
                rest_menus == menus_get(rest.restaurant_id)
            IN \E k \in RandInt("orders", 1, Min(3, Len(rest_menus))) :
               \E sample \in Sample("orders", rest_menus, k),
                  qtys \in [1 .. k -> RandInt("orders", 1, 3)],
                  surcharge \in Surcharges, chance \in Chance("orders") :
                  LET made == make_order_with_items(
                                  cust.customer_id, rest.restaurant_id, rest_menus,
                                  NewId("orders"), NewId("orderitem"), sample, qtys,
                                  surcharge)
                  IN IF made.order = None
                     THEN /\ all_ok' = FALSE
                          /\ UNCHANGED <<rows, error, pc>>
                     ELSE /\ UNCHANGED <<error, pc, all_ok>>
                          /\ IF wants_delivery(chance)
                             THEN \E ai \in Choice("orders", agents),
                                     address_id \in delivery_addresses(cust.customer_id) :
                                     rows' = rows \o order_group(made, chance, ai, address_id)
                             ELSE rows' = rows \o order_group(made, chance, 0, None)
    /\ UNCHANGED <<env, batch, pools, idx, left, tries, registry, result,
                   accepted, last, probe, emitted>>

\* a slice of one record more
truncate_one_more(rs, batch_size) == SubSeq(rs, 1, batch_size + 1)

\* rows[:batch_size]
truncate(rs, batch_size) == SubSeq(rs, 1, batch_size)

\* the end of build_batch: slice when rows overshot, else drop the None rows
Return ==
    /\ pc = "orders" /\ ~ orders_loop_runs
    /\ result' = IF Len(rows) > BATCH_SIZE
                 THEN truncate(rows, BATCH_SIZE)
                 ELSE SelectSeq(rows, LAMBDA r : r # None)
    /\ pc' = "upload"
    /\ UNCHANGED <<env, batch, rows, pools, attempts, idx, left, tries, registry,
                   error, accepted, last, all_ok, probe, emitted>>

\* upload_batch_to_s3(rows) and time.sleep: back to the top of `while True`
Upload ==
    /\ pc = "upload"
    /\ IF result = <<>>
       THEN error' = "Exception" /\ pc' = "halted" /\ UNCHANGED emitted
       ELSE pc' = "main" /\ emitted' = batch /\ UNCHANGED error
    /\ UNCHANGED <<env, batch, rows, pools, attempts, idx, left, tries, registry,
                   result, accepted, last, all_ok, probe>>

Next ==
    \/ StartBatch
    \/ CustomersLoop \/ CustomerAttempt \/ CustomerExhausted
    \/ AddressesLoop
    \/ RestaurantsLoop \/ RestaurantAttempt \/ RestaurantExhausted
    \/ MenusLoop \/ MenuCalls \/ MenuAttempt \/ MenuExhausted
    \/ AgentsLoop \/ AgentAttempt \/ AgentExhausted
    \/ OrderIteration \/ Return \/ Upload

Spec == Init /\ [][Next]_vars

\* ------------------------------------------------------------------
\* The process under an external interrupt
\* ------------------------------------------------------------------
\* KeyboardInterrupt reaches the main thread wherever it is: inside
\* build_batch, upload_batch_to_s3 or time.sleep. `except KeyboardInterrupt`
\* encloses the whole `while True` loop, so the loop is left at once.
Interrupt ==
    /\ pc \notin {"halted", "stopped"}
    /\ pc' = "stopped"
    /\ UNCHANGED <<env, batch, rows, pools, attempts, idx, left, tries, registry,
                   result, error, accepted, last, all_ok, probe, emitted>>

InterruptEnvironments ==
    [batch_size : {PeopleTarget}, batches : {1}, random : {{"customer", "agent"}}]
        \cup [batch_size : {CatalogTarget}, batches : {1}, random : {{"catalog"}}]

InterruptInit == env \in InterruptEnvironments /\ Idle

InterruptNext == Next \/ Interrupt

InterruptSpec == InterruptInit /\ [][InterruptNext]_vars

\* ------------------------------------------------------------------
\* The validators applied directly to candidates
\* ------------------------------------------------------------------
ProbeMoney == -10 .. MaxProbeMills

ProbeQuantities == -1 .. MaxProbeQty

OrderItemCandidates ==
    [type : {"orderitem"}, orderitem_id : {<<0, 1>>}, order_id : {<<0, 1>>},
     menu_id : {<<0, 1>>}, quantity : ProbeQuantities, price : ProbeMoney,
     subtotal : ProbeMoney]

\* validate_or_log(payload, OrderItemModel) on the drawn candidate
ProbeOrderItem ==
    /\ probe.model = "OrderItemModel" /\ ~ probe.done
    /\ probe' = [probe EXCEPT !.done = TRUE,
                              !.valid = validate_orderitem(probe.payload)]
    /\ UNCHANGED <<env, batch, pc, rows, pools, attempts, idx, left, tries,
                   registry, result, error, accepted, last, all_ok, emitted>>

\* menu prices in cents, as the strings of a menu record give them
ProbePrices == {-100, 0, 5000}

ProbeMenu(i, price) ==
    [type |-> "menu", menu_id |-> <<0, i>>, restaurant_id |-> <<0, 1>>,
     itemname |-> <<"D", "a", "l", " ">> \o Str(i), price |-> price]

ProbeMenuLists ==
    {<<>>} \cup {<<ProbeMenu(1, p)>> : p \in ProbePrices}
           \cup {<<ProbeMenu(1, p), ProbeMenu(2, q)>> : p, q \in ProbePrices}

\* random.uniform(10, 60), in mills
ProbeSurcharges == {10000, 59994, 59995}

\* the arguments of a call of make_order_with_items and what its draws return
OrderCalls ==
    UNION {[menus_for_rest : {ml},
            sample : IF ml = <<>> THEN {<<>>}
                     ELSE UNION {{sq \in [1 .. k -> DOMAIN ml] :
                                     \A i, j \in 1 .. k : i # j => sq[i] # sq[j]} :
                                 k \in 1 .. Min(3, Len(ml))},
            quantity : {1, 3}, surcharge : ProbeSurcharges] : ml \in ProbeMenuLists}

\* a call of make_order_with_items and lines 787-792 of build_batch on it
ProbeOrder ==
    /\ probe.model = "make_order_with_items" /\ ~ probe.done
    /\ LET call == probe.payload
           made == make_order_with_items(
                       <<0, 1>>, <<0, 1>>, call.menus_for_rest, <<0, 1>>, <<0, 1>>,
                       call.sample, [i \in DOMAIN call.sample |-> call.quantity],
                       call.surcharge)
       IN /\ probe' = [probe EXCEPT !.done = TRUE, !.valid = made]
          /\ rows' = IF made.order = None THEN rows
                     ELSE rows \o order_group(made, FALSE, 0, None)
    /\ UNCHANGED <<env, batch, pc, pools, attempts, idx, left, tries,
                   registry, result, error, accepted, last, all_ok, emitted>>

\* mobiles: well-formed, short, starting with 5, with a letter, long
ProbeMobiles ==
    {Phone(1), SubSeq(Phone(1), 1, 9), <<"5">> \o Tail(Phone(1)),
     SubSeq(Phone(1), 1, 9) \o <<"x">>, Phone(1) \o <<"0">>}

\* e-mail addresses with one, no and two '@'
ProbeEmails ==
    {<<"a", "@", "g", ".", "c">>, <<"a", "g", ".", "c">>,
     <<"a", "@", "@", "g", ".", "c">>}

CustomerCandidates ==
    [type : {"customer"}, customer_id : {<<0, 1>>}, name : {<<"A", "n", "n">>},
     mobile : ProbeMobiles, email : ProbeEmails, dob : Dobs]

\* validate_or_log(payload, CustomerModel) on the drawn candidate
ProbeCustomer ==
    /\ probe.model = "CustomerModel" /\ ~ probe.done
    /\ probe' = [probe EXCEPT !.done = TRUE,
                              !.valid = validate_customer(probe.payload)]
    /\ UNCHANGED <<env, batch, pc, rows, pools, attempts, idx, left, tries,
                   registry, result, error, accepted, last, all_ok, emitted>>

RestaurantCandidates ==
    [type : {"restaurant"}, restaurant_id : {<<0, 1>>},
     name : {<<"C", "a", "f", "e">>}, location_id : {<<0, 1>>},
     pricing_for_2 : ProbeMoney]

MenuCandidates ==
    [type : {"menu"}, menu_id : {<<0, 1>>}, restaurant_id : {<<0, 1>>},
     itemname : {<<"D", "a", "l">>}, price : ProbeMoney]

\* validate_or_log(payload, RestaurantModel) on the drawn candidate
ProbeRestaurant ==
    /\ probe.model = "RestaurantModel" /\ ~ probe.done
    /\ probe' = [probe EXCEPT !.done = TRUE,
                              !.valid = validate_restaurant(probe.payload)]
    /\ UNCHANGED <<env, batch, pc, rows, pools, attempts, idx, left, tries,
                   registry, result, error, accepted, last, all_ok, emitted>>

\* validate_or_log(payload, MenuModel) on the drawn candidate
ProbeMenuItem ==
    /\ probe.model = "MenuModel" /\ ~ probe.done
    /\ probe' = [probe EXCEPT !.done = TRUE,
                              !.valid = validate_menu(probe.payload)]
    /\ UNCHANGED <<env, batch, pc, rows, pools, attempts, idx, left, tries,
                   registry, result, error, accepted, last, all_ok, emitted>>

ProbeInit ==
    /\ env = [batch_size |-> 1, batches |-> 0, random |-> {}]
    /\ batch = 0 /\ pc = "main"
    /\ rows = <<>> /\ customers = <<>> /\ addresses = <<>> /\ restaurants = <<>>
    /\ menus = <<>> /\ mlist = <<>> /\ agents = <<>>
    /\ attempts = 0 /\ idx = 0 /\ left = 0 /\ tries = 0
    /\ existing_customer_mobiles = {} /\ existing_customer_emails = {}
    /\ existing_customer_name_dob = {} /\ existing_agent_phones = {}
    /\ existing_restaurant_keys = {} /\ existing_menu_keys = {}
    /\ result = <<>> /\ error = ""
    /\ accepted = [customer |-> {}, restaurant |-> {}, menu |-> {}, deliveryagent |-> {}]
    /\ last = NoAttempt /\ all_ok = TRUE /\ emitted = 0
    /\ probe \in [model : {"OrderItemModel"}, payload : OrderItemCandidates,
                  done : {FALSE}, valid : {None}]
                 \cup [model : {"make_order_with_items"}, payload : OrderCalls,
                       done : {FALSE}, valid : {None}]
                 \cup [model : {"CustomerModel"}, payload : CustomerCandidates,
                       done : {FALSE}, valid : {None}]
                 \cup [model : {"RestaurantModel"}, payload : RestaurantCandidates,
                       done : {FALSE}, valid : {None}]
                 \cup [model : {"MenuModel"}, payload : MenuCandidates,
                       done : {FALSE}, valid : {None}]

ProbeNext ==
    \/ ProbeOrderItem \/ ProbeOrder \/ ProbeCustomer
    \/ ProbeRestaurant \/ ProbeMenuItem

ValSpec == ProbeInit /\ [][ProbeNext]_vars

\* ------------------------------------------------------------------
\* Properties
\* ------------------------------------------------------------------
FactoryPcs == {"make_customer_unique", "make_restaurant_unique",
               "make_menu_unique", "make_deliveryagent_unique"}

\* build_batch has returned and main holds its result
Returned == pc = "upload"

Truncated == Returned /\ Len(rows) > BATCH_SIZE

HasType(rs, type) == \E i \in DOMAIN rs : rs[i].type = type

\* C1: no two customers accepted during one registry lifetime share a
\* mobile, a lower-cased e-mail or a (name, dob) pair: each of the three keys
\* takes as many values over the accepted customers as there are customers.
C1_UniqueCustomers ==
    LET n == Cardinality(accepted.customer)
    IN /\ Cardinality({a.mobile : a \in accepted.customer}) = n
       /\ Cardinality({Lower(a.email) : a \in accepted.customer}) = n
       /\ Cardinality({<<a.name, a.dob>> : a \in accepted.customer}) = n

\* two customers of different batches are accepted and the last candidate
\* collided with the registry
C1_Witness ==
    /\ \E a, b \in accepted.customer : a.customer_id[1] # b.customer_id[1]
    /\ last.fn = "make_customer_unique" /\ last.outcome = "collision"

\* C2 as claimed: an accepted OrderItem has its subtotal within
\* [expected - 0.01, expected], expected = round_half_up(price * quantity, 2).
C2_SubtotalWithinTolerance ==
    (probe.model = "OrderItemModel" /\ probe.done /\ probe.valid # None) =>
        LET expected == probe.valid.price * probe.valid.quantity
        IN expected - 1 <= probe.valid.subtotal /\ probe.valid.subtotal <= expected

HasItem(rs, order) ==
    \E j \in DOMAIN rs : rs[j].type = "orderitem" /\ rs[j].order_id = order.order_id

\* C3 as claimed: when all generation succeeds, every Order of the returned
\* collection has at least one of its OrderItems in the collection.
C3_NoOrderWithoutItem ==
    (Returned /\ all_ok) =>
        \A i \in DOMAIN result : result[i].type = "orders" => HasItem(result, result[i])

\* C3 amended: every Order of the returned collection, except the last
\* record of a truncated collection, has one of its OrderItems in the
\* collection, right after it.
C3_OnlyLastOrderSevered ==
    Returned =>
        \A i \in DOMAIN result :
            (result[i].type = "orders" /\ ~ (Truncated /\ i = Len(result))) =>
                /\ i < Len(result)
                /\ result[i + 1].type = "orderitem"
                /\ result[i + 1].order_id = result[i].order_id

\* a truncated collection that ends in an order cut from all of its items
\* and holds an earlier order with its item
C3_Witness ==
    /\ Truncated
    /\ result[Len(result)].type = "orders"
    /\ \E i \in DOMAIN result : result[i].type = "orders" /\ i < Len(result)

Has(rs, type, field, id) ==
    \E j \in DOMAIN rs : rs[j].type = type /\ rs[j][field] = id

\* every reference of record r resolves inside rs
Resolves(rs, r) ==
    CASE r.type = "orders" ->
            /\ Has(rs, "customer", "customer_id", r.customer_id)
            /\ Has(rs, "restaurant", "restaurant_id", r.restaurant_id)
      [] r.type = "orderitem" ->
            /\ Has(rs, "orders", "order_id", r.order_id)
            /\ Has(rs, "menu", "menu_id", r.menu_id)
            /\ \E o, m \in DOMAIN rs :
                  /\ rs[o].type = "orders" /\ rs[o].order_id = r.order_id
                  /\ rs[m].type = "menu" /\ rs[m].menu_id = r.menu_id
                  /\ rs[m].restaurant_id = rs[o].restaurant_id
      [] r.type = "delivery" ->
            /\ Has(rs, "orders", "order_id", r.order_id)
            /\ Has(rs, "deliveryagent", "deliveryagent_id", r.deliveryagent_id)
            /\ Has(rs, "customeraddressbook", "address_id", r.address_id)
      [] r.type \in {"customeraddressbook", "loginaudit"} ->
            Has(rs, "customer", "customer_id", r.customer_id)
      [] OTHER -> TRUE

\* C4: in every collection build_batch returns, truncated or not, every
\* reference of every record names a record of the right kind that is in the
\* collection, and an OrderItem's menu item belongs to its order's restaurant.
C4_ReferencesResolve ==
    Returned => \A i \in DOMAIN result : Resolves(result, result[i])

\* a truncated collection that holds a delivery, an order item and an address
C4_Witness ==
    /\ Truncated
    /\ HasType(result, "delivery") /\ HasType(result, "orderitem")
    /\ HasType(result, "customeraddressbook")

\* C5 as claimed: whatever the factories return, build_batch never raises.
C5_NeverFatal == error # "IndexError"

\* C6: no two accepted restaurants share (lower-cased name, location_id) and
\* no two accepted menu items, the fallback items included, share
\* (restaurant_id, lower-cased item name): each key takes as many values
\* as there are accepted records.
C6_UniqueCatalogKeys ==
    /\ Cardinality({<<Lower(a.name), a.location_id>> : a \in accepted.restaurant})
          = Cardinality(accepted.restaurant)
    /\ Cardinality({<<a.restaurant_id, Lower(a.itemname)>> : a \in accepted.menu})
          = Cardinality(accepted.menu)

\* a fallback item and a generated item of the same name are accepted for
\* two restaurants, and the last menu candidate collided with the registry
C6_Witness ==
    /\ \E a, b \in accepted.menu :
          /\ a.price = 10000 /\ b.price # 10000
          /\ Lower(a.itemname) = Lower(b.itemname)
    /\ last.fn = "make_menu_unique" /\ last.outcome = "collision"

\* the registry sets that hold the keys of a record of each kind
KeysAbsent(rec) ==
    CASE rec.type = "customer" ->
            /\ customer_keys(rec).mobile \notin existing_customer_mobiles
            /\ customer_keys(rec).email \notin existing_customer_emails
            /\ customer_keys(rec).name_dob \notin existing_customer_name_dob
      [] rec.type = "restaurant" ->
            restaurant_key(rec.name, rec.location_id) \notin existing_restaurant_keys
      [] rec.type = "menu" ->
            menu_key(rec.restaurant_id, rec.itemname) \notin existing_menu_keys
      [] rec.type = "deliveryagent" -> rec.phone \notin existing_agent_phones

\* the registry after the keys of rec, and nothing else, are added
Registered(rec) ==
    LET c == rec.type = "customer"
    IN << existing_customer_mobiles
              \cup (IF c THEN {customer_keys(rec).mobile} ELSE {}),
          existing_customer_emails
              \cup (IF c THEN {customer_keys(rec).email} ELSE {}),
          existing_customer_name_dob
              \cup (IF c THEN {customer_keys(rec).name_dob} ELSE {}),
          existing_agent_phones
              \cup (IF rec.type = "deliveryagent" THEN {rec.phone} ELSE {}),
          existing_restaurant_keys
              \cup (IF rec.type = "restaurant"
                    THEN {restaurant_key(rec.name, rec.location_id)} ELSE {}),
          existing_menu_keys
              \cup (IF rec.type = "menu"
                    THEN {menu_key(rec.restaurant_id, rec.itemname)} ELSE {}) >>

\* C7: an attempt of a uniqueness-constrained factory whose candidate
\* collides or fails validation, and the step that returns None, leave every
\* registry set unchanged; the attempt that returns the accepted record adds
\* the keys of that record and nothing else.
C7_OnlyAcceptedRegisters ==
    [][(pc \in FactoryPcs) =>
          (IF last'.outcome = "accepted"
           THEN registry' = Registered(last'.ret)
           ELSE registry' = registry)]_vars

\* a menu candidate has just failed validation
C7_Witness ==
    /\ pc = "make_menu_unique"
    /\ last.fn = "make_menu_unique" /\ last.outcome = "invalid"

\* C8: a call of a uniqueness-constrained factory generates at most
\* MAX_UNIQUENESS_ATTEMPTS candidates; it goes on only after a rejected
\* candidate, returns a record only if its keys were absent from the
\* registry, and returns None only when the budget is used up.
C8_BoundedAttempts ==
    [][(pc \in FactoryPcs) =>
          (CASE last'.outcome = "null" ->
                   tries = MAX_UNIQUENESS_ATTEMPTS /\ tries' = tries /\ pc' # pc
             [] last'.outcome = "accepted" ->
                   /\ tries' = tries + 1 /\ tries' <= MAX_UNIQUENESS_ATTEMPTS
                   /\ KeysAbsent(last'.ret)
                   /\ pc' # pc
             [] OTHER ->
                   /\ tries' = tries + 1 /\ tries' <= MAX_UNIQUENESS_ATTEMPTS
                   /\ pc' = pc)]_vars

\* make_deliveryagent_unique has just returned None after its last candidate
C8_Witness ==
    /\ last.fn = "make_deliveryagent_unique" /\ last.outcome = "null"
    /\ tries = MAX_UNIQUENESS_ATTEMPTS /\ pc = "agents"

\* C9: the returned collection never has more records than the target; when
\* the records built reach the target it has exactly that many and is the
\* prefix of the records built.
C9_AtMostTarget ==
    Returned =>
        /\ Len(result) <= BATCH_SIZE
        /\ Len(rows) >= BATCH_SIZE =>
              /\ Len(result) = BATCH_SIZE
              /\ \A i \in 1 .. BATCH_SIZE : result[i] = rows[i]

\* the target-100 scenario where all generation succeeds, truncated
C9_Witness ==
    /\ Truncated /\ all_ok /\ BATCH_SIZE = ControlledTarget
    /\ Len(result) = BATCH_SIZE

\* C10 as claimed: a batch whose agent pool is empty gets no Delivery record
\* and raises no error.
C10_NoAgentsNoDelivery ==
    (pc \in {"orders", "upload", "halted"} /\ agents = <<>>) =>
        ~ HasType(rows, "delivery") /\ error = ""

\* the menu rows of a restaurant among rs
MenuRows(rs, restaurant_id) ==
    SelectSeq(rs, LAMBDA r : r.type = "menu" /\ r.restaurant_id = restaurant_id)

\* C11: when build_batch ends the menu of a restaurant whose calls of
\* make_menu_unique all returned None, it appends exactly one menu item, the
\* fallback of that restaurant, and the item's key is in the registry after
\* the step; and when the order stage starts every accepted restaurant of the
\* batch has at least one menu item.
C11_FallbackMenu ==
    [][/\ (pc = "menu_calls" /\ left = 0 /\ mlist = <<>>) =>
             LET rid == restaurants[idx].restaurant_id
             IN /\ Len(rows') = Len(rows) + 1
                /\ rows'[Len(rows')] = fallback(rid, rows'[Len(rows')].menu_id)
                /\ Len(MenuRows(rows', rid)) = 1
                /\ menus'[rid] = <<rows'[Len(rows')]>>
                /\ menu_key(rid, rows'[Len(rows')].itemname) \in existing_menu_keys'
       /\ (pc' = "orders" /\ pc # "orders") =>
             \A i \in DOMAIN restaurants' :
                /\ restaurants'[i].restaurant_id \in DOMAIN menus'
                /\ menus'[restaurants'[i].restaurant_id] # <<>>]_vars

\* the order stage of a batch with a restaurant whose only menu item is the
\* fallback, every candidate of its make_menu_unique calls having been rejected
C11_Witness ==
    /\ pc = "orders" /\ restaurants # <<>>
    /\ \E i \in DOMAIN restaurants :
          LET ml == menus_get(restaurants[i].restaurant_id)
          IN /\ Len(ml) = 1
             /\ ml[1] = fallback(restaurants[i].restaurant_id, ml[1].menu_id)

\* the batch an accepted record was generated for
BatchOf(rec) ==
    CASE rec.type = "customer" -> rec.customer_id[1]
      [] rec.type = "restaurant" -> rec.restaurant_id[1]
      [] rec.type = "menu" -> rec.menu_id[1]
      [] rec.type = "deliveryagent" -> rec.deliveryagent_id[1]

\* C12 as claimed: when the main loop has been stopped by an interrupt, the
\* batch that was started has been put to the bucket, and every record whose
\* keys are in the registry was generated for a batch that was put.
C12_StopsBetweenBatches ==
    pc = "stopped" =>
        /\ emitted = batch
        /\ \A rec \in accepted.customer \cup accepted.restaurant
                        \cup accepted.menu \cup accepted.deliveryagent :
              BatchOf(rec) <= emitted

OrderProbed == probe.model = "make_order_with_items" /\ probe.done

\* the items of the probed call that pass validation
Surviving ==
    LET call == probe.payload
    IN order_items([i \in DOMAIN call.sample |-> call.menus_for_rest[call.sample[i]]],
                   [i \in DOMAIN call.sample |-> call.quantity],
                   <<0, 1>>, <<0, 1>>, 1, <<>>)

\* C13: make_order_with_items returns an order only with at least one
\* validated item; with no menu item or no surviving item it returns None
\* and an empty list; and build_batch appends no item of an order it did not
\* append.
C13_NoOrderWithoutItems ==
    OrderProbed =>
        /\ probe.valid.order # None => probe.valid.items # <<>>
        /\ (probe.payload.menus_for_rest = <<>> \/ Surviving = <<>>) =>
              probe.valid = [order |-> None, items |-> <<>>]
        /\ \A i \in DOMAIN rows :
              rows[i].type = "orderitem" =>
                  Has(rows, "orders", "order_id", rows[i].order_id)

\* a call whose chosen menu items all fail validation
C13_Witness ==
    /\ OrderProbed /\ probe.payload.menus_for_rest # <<>>
    /\ Surviving = <<>> /\ probe.valid.order = None /\ rows = <<>>

\* the number of '@' in an e-mail address
Ats(email) == Cardinality({i \in DOMAIN email : email[i] = "@"})

WellFormedMobile(v) ==
    /\ Len(v) = 10 /\ v[1] \in {"6", "7", "8", "9"}
    /\ \A i \in DOMAIN v : v[i] \in {Digits[d] : d \in DOMAIN Digits}

\* C14 as claimed: the Customer validator accepts a candidate exactly when
\* its mobile is 10 digits starting with 6, 7, 8 or 9 and its email holds
\* exactly one '@'.
C14_MobileAndEmail ==
    (probe.model = "CustomerModel" /\ probe.done) =>
        (probe.valid # None <=>
            WellFormedMobile(probe.payload.mobile) /\ Ats(probe.payload.email) = 1)

\* the customer of the order a delivery among rs is for
DeliveryCustomer(rs, d) ==
    LET o == CHOOSE j \in DOMAIN rs :
                 rs[j].type = "orders" /\ rs[j].order_id = d.order_id
    IN rs[o].customer_id

\* the customers of the addresses of the batch that have the given id
AddressOwners(address_id) ==
    {addresses[i].customer_id :
        i \in {j \in DOMAIN addresses : addresses[j].address_id = address_id}}

\* C15: the address of every Delivery build_batch has appended belongs to
\* the customer of its order when that customer has an address in the batch,
\* and is some address of the batch otherwise; a batch without addresses has
\* no Delivery.
C15_DeliveryAddress ==
    \A i \in DOMAIN rows :
        rows[i].type = "delivery" =>
            LET c == DeliveryCustomer(rows, rows[i])
            IN /\ AddressOwners(rows[i].address_id) # {}
               /\ (\E j \in DOMAIN addresses : addresses[j].customer_id = c) =>
                     AddressOwners(rows[i].address_id) = {c}

\* a delivery for a customer without address, sent to another customer's
C15_Witness ==
    \E i \in DOMAIN rows :
        /\ rows[i].type = "delivery"
        /\ DeliveryCustomer(rows, rows[i]) \notin AddressOwners(rows[i].address_id)

\* C16 as claimed: the price of every Restaurant and MenuItem record the
\* validation layer accepts is greater than 0 after rounding to 2 digits.
C16_PositivePrice ==
    /\ (probe.model = "RestaurantModel" /\ probe.done /\ probe.valid # None) =>
          probe.valid.pricing_for_2 > 0
    /\ (probe.model = "MenuModel" /\ probe.done /\ probe.valid # None) =>
          probe.valid.price > 0

\* C17 as claimed: for an order make_order_with_items returns, totalamount
\* less the subtotals of the returned items is a surcharge of at least 10.00
\* and less than 60.00, and the items are for 1 to 3 pairwise distinct menu
\* items of the given list, each with a quantity of 1 to 3.
C17_SurchargeAndItems ==
    (OrderProbed /\ probe.valid.order # None) =>
        LET items == probe.valid.items
            s == probe.valid.order.totalamount - SumSubtotals(items)
        IN /\ 1000 <= s /\ s < 6000
           /\ Len(items) \in 1 .. 3
           /\ \A i, j \in DOMAIN items : i # j => items[i].menu_id # items[j].menu_id
           /\ \A i \in DOMAIN items :
                 /\ items[i].quantity \in 1 .. 3
                 /\ \E k \in DOMAIN probe.payload.menus_for_rest :
                       probe.payload.menus_for_rest[k].menu_id = items[i].menu_id

====
